---- MODULE Spec2Model ----
(***************************************************************************)
(* Model of the content script of animestars-card-stats-ext                *)
(* (src/src/content.ts, class CardStatsOverlay): lazy registration of card *)
(* elements, resolution of card ids, overlay insertion, the activity gate, *)
(* the mutation watcher and the navigation-trigger coordinator.            *)
(*                                                                         *)
(* The background service and the host page are the environment: a lookup  *)
(* is answered at any later time, with success or failure; the host page   *)
(* attaches and detaches card elements and fires user events.  Time is not *)
(* measured: a timer that was set may fire at any later step.              *)
(*                                                                         *)
(* Three parts are followed on their own, each from its own initial state: *)
(* the steps inside init() and initWithRetry (boot), the start-up and the  *)
(* message handler of BackgroundService (src/src/background.ts, worker),   *)
(* and DatabaseService.findCardByImageUrl (src/unnamed/part_003).          *)
(***************************************************************************)
EXTENDS Integers, Sequences, FiniteSets, TLC

\* ------------------------------------------------------------------ bounds

MaxVersion == 1        \* dataset replacements announced by the background
MaxOutstanding == 2    \* lookups in flight for one card element
MaxOverlayNodes == 3   \* overlay nodes in existence
MaxTimers == 1         \* pending timers of one kind, the scan timers apart
MaxScans == 2          \* pending timers of processExistingCardsDebounced
MaxRebuilds == 2       \* navigation rebuilds whose 100 ms timer is pending
MaxExpiry == 2         \* pending 5 s timers of one processingIds key
MaxUrlLen == 3         \* characters of an image URL after its origin
MaxRecords == 2        \* records in the object store 'cards'
MaxRounds == 2         \* rounds of initWithRetry that fail

\* MAX_TOTAL_OVERLAYS is 200 in the source; the model keeps the comparison of
\* addStatsOverlay and performCleanup and scales the number so that the two
\* catalog cards of the modelled page exceed it.
MAX_TOTAL_OVERLAYS == 1

PROCESS_DEBOUNCE_DELAY == 500

maxRetryAttempts == 3

\* private retryDelay = 1000
InitialRetryDelay == 1000

\* setTimeout(() => this.init(), 5000)
OuterRetryDelay == 5000

\* ---------------------------------------------------------------- the page

PathCatalog == "/cards/"
PathTrade == "/cards/42/trade/"
PathRemelt == "/cards_remelt/"
Paths == {PathCatalog, PathTrade, PathRemelt}

\* path.includes('/trade/')
IncludesTrade(path) == path = PathTrade
\* path.includes('/cards_remelt/')
IncludesRemelt(path) == path = PathRemelt
\* pathname === '/cards/' || pathname.startsWith('/cards/?')
IsCardsCatalog(path) == path = PathCatalog
\* pathname.match(/\/cards\/\d+\/trade\//) || pathname === '/trade/'
IsActualTradePage(path) == path = PathTrade

\* ------------------------------------------------------- selectors, elements

SelWrapper == ".anime-cards__item-wrapper"
SelTradeImg == ".trade__inventory-item img"
SelRemeltImg == ".remelt__inventory-item img"

\* The entries of cardSelectors that the modelled elements match.
cardSelectors ==
  << [selector |-> SelWrapper, dataIdAttribute |-> "data-id",
      targetSelector |-> ".anime-cards__item-wrapper", extractFromImage |-> FALSE],
     [selector |-> SelTradeImg, dataIdAttribute |-> "src",
      targetSelector |-> ".trade__inventory-item", extractFromImage |-> TRUE],
     [selector |-> SelRemeltImg, dataIdAttribute |-> "src",
      targetSelector |-> ".remelt__inventory-item", extractFromImage |-> TRUE],
     [selector |-> SelTradeImg, dataIdAttribute |-> "src",
      targetSelector |-> ".trade__inventory-item", extractFromImage |-> TRUE] >>

\* The host page's markup: elements 1 and 2 are catalog wrappers (a wrapper
\* contains its image), elements 3 and 4 are the images of a trade item and of
\* a remelt item.  Elements 5 and 6 show the card of element 4 once more: 5 is
\* the image of a second remelt item, 6 is a wrapper.
ElementSelector ==
  <<SelWrapper, SelWrapper, SelTradeImg, SelRemeltImg, SelRemeltImg, SelWrapper>>

Cards == 1..Len(ElementSelector)   \* the card elements, in document order

Matches(el, sel) == ElementSelector[el] = sel.selector

\* cardSelectors.find(selector => element.matches(selector.selector))
MatchingSelector(el) ==
  cardSelectors[CHOOSE i \in 1..Len(cardSelectors) :
                  /\ Matches(el, cardSelectors[i])
                  /\ \A j \in 1..(i - 1) : ~Matches(el, cardSelectors[j])]

\* The element is an IMG: it has no descendants, so querySelector on it finds
\* nothing, neither an overlay nor an img.
IsImg(el) == ElementSelector[el] \in {SelTradeImg, SelRemeltImg}

\* selector.extractFromImage && attr === 'src'
ResolvesByImage(el) ==
  MatchingSelector(el).extractFromImage /\ MatchingSelector(el).dataIdAttribute = "src"


\* The element contains an img of its own (card.element.querySelector('img')).
HasInnerImg(el) == ElementSelector[el] = SelWrapper

\* The trade item of element 3 lies inside the .trade__inventory container.
InInventory == {3}

\* The card elements the host page shows on each of the modelled pages.
PageCards(path) ==
  CASE path = PathCatalog -> {1, 2}
    [] path = PathTrade -> {3}
    [] path = PathRemelt -> {4}

\* The card elements of a remelt page whose inventory holds a card twice and
\* that shows it in a wrapper as well.
DuplicateCards == {4, 5, 6}

\* The card elements of a trade page that shows a wrapper next to the item of
\* its inventory.
TradeCards == {3, 6}

\* The card id the element resolves to and the normalized URL of its image.
CardIdOf == <<1, 2, 3, 4, 4, 4>>
ImageOf == <<1, 2, 3, 4, 4, 4>>
\* The id a card element carries after the host page redrew it in place.
RedrawnCardId == 9

CardIds == {CardIdOf[c] : c \in Cards} \cup {RedrawnCardId}
Images == {ImageOf[c] : c \in Cards}

\* The number found in the path of the element's image URL (the id of the
\* anime, not of the card); 0 for an element that is not resolved by image.
UrlNumberOf == <<0, 0, 7, 8, 8, 0>>

\* null, as a card id
NoId == 0

NoStats == [ver |-> -1, at |-> -1]

AttrNames == {"class", "data-id"}

\* -------------------------------------------------------------------- state

VARIABLES
  page,                  \* window.location.pathname
  itemAttached,          \* per card: its item is attached to its parent
  inventoryAttached,     \* the .trade__inventory container is in the document
  tabHidden,             \* document.visibilityState # 'visible'
  dbVersion,             \* version of the dataset the background serves
  notifications,         \* databaseUpdated messages sent and not yet delivered
  isInitialized,
  attempt,               \* the attempt of initWithRetry that runs next; 0 once done
  intersectionObserver,  \* this.intersectionObserver # null
  cleanupTimer,          \* this.cleanupTimer # null: the cleanup interval runs
  clickHandler,          \* clickHandler and changeHandler are attached
  isUserActive,
  wasProcessingPaused,
  pendingCards,
  userInactivityTimer,   \* the inactivity timeout is pending
  observing,             \* elements carrying data-animestars-observing
  processed,             \* elements carrying data-animestars-processed
  ioTargets,             \* targets of the IntersectionObserver
  ioDue,                 \* targets whose first entry is not yet delivered
  overlays,              \* overlay nodes in insertion order
  currentOverlaysCount,
  statsCache,
  cardIdCache,
  processingIds,
  isNavigationProcessing,
  navigationTimeout,     \* the 300 ms retry of a queued trigger is pending
  navDone,               \* one entry per rebuild whose 100 ms timer is pending
  timers,                \* the pending timers, in the order they were set: kind,
                         \* delay, and w: the timer runs no earlier than the end
                         \* of the debounce window that is open now
  expiry,                \* pending 5 s expiry timers by processingIds key
  inDebounceWindow,      \* Date.now() - lastProcessTime < PROCESS_DEBOUNCE_DELAY
  idLookups,             \* findCardByImage requests in flight, by element
  statLookups,           \* getCardStats requests in flight, by element
  mutations,             \* records queued for the MutationObserver callback
  hist,                  \* history of the run, read by the properties only
  cardsStore,            \* DatabaseService: the records of the object store 'cards'
  imageUrl,              \* the argument of the findCardByImageUrl call
  foundCard,             \* what that call resolved with; Unasked before it ran
  worker,                \* BackgroundService: the step init() awaits, whether the
                         \* message listener is registered, the last response
  boot,                  \* init() and initWithRetry step by step: the awaited
                         \* step, the pings of the attempt, this.retryDelay
  backgroundReady,       \* the background answers ping with success
  redrawn                \* the cards whose data-id the host page rewrote in place

\* The extension's other components: the database service and the
\* background service worker.
serviceVars == <<cardsStore, imageUrl, foundCard, worker>>

\* The steps inside an initialisation attempt, and the background they wait for.
bootVars == <<boot, backgroundReady>>

pageVars ==
  <<page, itemAttached, inventoryAttached, tabHidden, dbVersion, notifications, redrawn>>

\* What the handlers of the initialised script leave alone.
envVars == <<pageVars, serviceVars, bootVars>>

scriptVars ==
  <<isInitialized, attempt, intersectionObserver, cleanupTimer, clickHandler, isUserActive,
    wasProcessingPaused, pendingCards, userInactivityTimer,
    observing, processed, ioTargets, ioDue, overlays, currentOverlaysCount, statsCache,
    cardIdCache, processingIds, isNavigationProcessing, navigationTimeout, navDone,
    timers, expiry, inDebounceWindow, idLookups, statLookups, mutations, hist>>

vars == <<envVars, scriptVars>>

TimerKinds == {"scan", "dbSettle", "resume", "mut", "navClick"}

\* document.contains(element)
InDocument(el) == itemAttached[el] /\ (el \in InInventory => inventoryAttached)

\* The script's state as one record, so that a handler is a function on it.
Cur ==
  [isInitialized |-> isInitialized, attempt |-> attempt,
   intersectionObserver |-> intersectionObserver,
   cleanupTimer |-> cleanupTimer, clickHandler |-> clickHandler,
   isUserActive |-> isUserActive,
   wasProcessingPaused |-> wasProcessingPaused, pendingCards |-> pendingCards,
   userInactivityTimer |-> userInactivityTimer, observing |-> observing,
   processed |-> processed, ioTargets |-> ioTargets, ioDue |-> ioDue,
   overlays |-> overlays, currentOverlaysCount |-> currentOverlaysCount,
   statsCache |-> statsCache, cardIdCache |-> cardIdCache,
   processingIds |-> processingIds,
   isNavigationProcessing |-> isNavigationProcessing,
   navigationTimeout |-> navigationTimeout, navDone |-> navDone, timers |-> timers,
   expiry |-> expiry, inDebounceWindow |-> inDebounceWindow, idLookups |-> idLookups,
   statLookups |-> statLookups, mutations |-> mutations, hist |-> hist]

\* The positions of the pending timers of kind k.
Pending(s, k) == {i \in 1..Len(s.timers) : s.timers[i].kind = k}

WithinBounds(s) ==
  /\ Len(s.overlays) <= MaxOverlayNodes
  /\ Len(s.navDone) <= MaxRebuilds
  /\ \A k \in TimerKinds \ {"scan"} : Cardinality(Pending(s, k)) <= MaxTimers
  /\ Cardinality(Pending(s, "scan")) <= MaxScans
  /\ \A i \in Images : s.expiry[i] <= MaxExpiry
  /\ \A c \in Cards : s.idLookups[c] + s.statLookups[c] <= MaxOutstanding

Commit(s) ==
  /\ WithinBounds(s)
  /\ isInitialized' = s.isInitialized
  /\ attempt' = s.attempt
  /\ intersectionObserver' = s.intersectionObserver
  /\ cleanupTimer' = s.cleanupTimer
  /\ clickHandler' = s.clickHandler
  /\ isUserActive' = s.isUserActive
  /\ wasProcessingPaused' = s.wasProcessingPaused
  /\ pendingCards' = s.pendingCards
  /\ userInactivityTimer' = s.userInactivityTimer
  /\ observing' = s.observing
  /\ processed' = s.processed
  /\ ioTargets' = s.ioTargets
  /\ ioDue' = s.ioDue
  /\ overlays' = s.overlays
  /\ currentOverlaysCount' = s.currentOverlaysCount
  /\ statsCache' = s.statsCache
  /\ cardIdCache' = s.cardIdCache
  /\ processingIds' = s.processingIds
  /\ isNavigationProcessing' = s.isNavigationProcessing
  /\ navigationTimeout' = s.navigationTimeout
  /\ navDone' = s.navDone
  /\ timers' = s.timers
  /\ expiry' = s.expiry
  /\ inDebounceWindow' = s.inDebounceWindow
  /\ idLookups' = s.idLookups
  /\ statLookups' = s.statLookups
  /\ mutations' = s.mutations
  /\ hist' = s.hist


\* ------------------------------------------------------------------ the DOM

\* The overlay nodes placed for el, wherever they are.
OverlaysOf(s, el) == {i \in 1..Len(s.overlays) : s.overlays[i].owner = el}

\* element.querySelector('.card-stats-overlay'): an overlay is a descendant of
\* the element only when the element is its own insertion target.
HasOverlayInside(s, el) == ~IsImg(el) /\ OverlaysOf(s, el) # {}

\* document.querySelectorAll('.card-stats-overlay'), in document order: by
\* owner, and for one owner in the order of insertion (append).
RECURSIVE DocOverlaysFrom(_, _)
DocOverlaysFrom(s, el) ==
  IF el > Len(ElementSelector) THEN <<>>
  ELSE LET own == IF InDocument(el)
                  THEN SelectSeq([i \in 1..Len(s.overlays) |-> i],
                                 LAMBDA i : s.overlays[i].owner = el)
                  ELSE <<>>
       IN own \o DocOverlaysFrom(s, el + 1)

DocumentOverlays(s) == DocOverlaysFrom(s, 1)

\* The sequence without the entries at the given indices.
RemoveAt(seq, idx) ==
  LET keep == SelectSeq([i \in 1..Len(seq) |-> i], LAMBDA i : i \notin idx)
  IN [k \in 1..Len(keep) |-> seq[keep[k]]]

\* A mutation of the document is recorded once startDOMObserver has run.
Record(s, recs) ==
  IF s.isInitialized THEN [s EXCEPT !.mutations = @ \cup recs] ELSE s

OverlayAdded == [type |-> "added", node |-> "overlay", el |-> 0, attr |-> ""]
OverlayRemoved == [type |-> "removed", node |-> "overlay", el |-> 0, attr |-> ""]

\* ------------------------------------------------------------ the handlers

removeAllStatsOverlays(s) ==
  LET gone == {DocumentOverlays(s)[k] : k \in 1..Len(DocumentOverlays(s))}
  IN IF gone = {} THEN s
     ELSE Record([s EXCEPT !.overlays = RemoveAt(@, gone)], {OverlayRemoved})

clearAllProcessedFlags(s) ==
  [s EXCEPT !.processed = {el \in @ : ~InDocument(el)},
            !.observing = {el \in @ : ~InDocument(el)},
            !.pendingCards = {}]

\* setTimeout(..., delay) for a timer of kind k.  A timer whose delay is at
\* least PROCESS_DEBOUNCE_DELAY outlasts a window that is open now.
\* It is due after the timers of processExistingCardsDebounced whose window is
\* over already: ahead counts them.
SetTimer(s, k, delay) ==
  [s EXCEPT !.timers = Append(@, [kind |-> k, delay |-> delay,
                                  w |-> delay >= PROCESS_DEBOUNCE_DELAY
                                        /\ s.inDebounceWindow,
                                  ahead |-> Cardinality({i \in Pending(s, "scan") :
                                                          ~s.timers[i].w})])]

\* PROCESS_DEBOUNCE_DELAY has passed since lastProcessTime was taken.
CloseWindow(s) ==
  [s EXCEPT !.inDebounceWindow = FALSE,
            !.timers = [i \in 1..Len(@) |-> [@[i] EXCEPT !.w = FALSE]]]

\* The timers of a page run in the order of their due times: a timer waits
\* for every timer that was set before it with a delay that is not longer.
CanRun(s, i) ==
  /\ s.timers[i].ahead = 0
  /\ \A j \in 1..(i - 1) : s.timers[j].delay > s.timers[i].delay

\* The timer at position i runs: it leaves the queue, and the window it
\* outlasts is over.
TakeTimer(s, i) ==
  LET overdue == s.timers[i].kind = "scan" /\ ~s.timers[i].w
      rest == RemoveAt(s.timers, {i})
      s1 == [s EXCEPT !.timers =
               [j \in 1..Len(rest) |->
                  IF overdue /\ rest[j].ahead > 0
                  THEN [rest[j] EXCEPT !.ahead = @ - 1] ELSE rest[j]]]
  IN IF s.timers[i].w THEN CloseWindow(s1) ELSE s1

\* The abstraction of lastProcessTime: the window opens when the time is taken
\* and closes PROCESS_DEBOUNCE_DELAY later.
\* hist.scan follows the invocations of processExistingCardsDebounced in the
\* runs that start with it switched on: "owed" after an invocation,
\* "coalesced" after one that fell inside the window, until
\* processExistingCards executes ("trailed" after a coalesced one, else "none").
Follow(s, v) == IF s.hist.scan = "off" THEN s ELSE [s EXCEPT !.hist.scan = v]

\* An accepted invocation that sets no timer, for comparison.
processExistingCardsUntimed(s) ==
  Follow([s EXCEPT !.inDebounceWindow = TRUE], "owed")

processExistingCardsDebounced(s) ==
  IF s.inDebounceWindow THEN Follow(s, "coalesced")
  ELSE LET s1 == Follow([s EXCEPT !.inDebounceWindow = TRUE],
                        IF s.hist.scan = "coalesced" THEN "coalesced" ELSE "owed")
       IN IF ~s1.isUserActive THEN s1
          ELSE SetTimer(s1, "scan", PROCESS_DEBOUNCE_DELAY)

\* IntersectionObserver.observe: a target that is already observed is left as
\* it is; a new target gets a first entry.
Observe(s, el) ==
  IF el \in s.ioTargets THEN s
  ELSE [s EXCEPT !.ioTargets = @ \cup {el}, !.ioDue = @ \cup {el}]

\* The tests of elements.forEach in processExistingCards: TRUE when the
\* element is flagged and handed to observe.
ScanRegisters(s, el, sel) ==
  IF IncludesRemelt(page) /\ sel.selector = SelRemeltImg
  THEN ~HasOverlayInside(s, el)
  ELSE el \notin s.observing /\ ~HasOverlayInside(s, el)

\* The body of elements.forEach in processExistingCards.
ScanElement(s, el, sel) ==
  IF ~ScanRegisters(s, el, sel) THEN s
  ELSE IF IncludesRemelt(page) /\ sel.selector = SelRemeltImg
       THEN Observe([s EXCEPT !.processed = @ \ {el},
                              !.observing = @ \cup {el}], el)
       ELSE Observe([s EXCEPT !.observing = @ \cup {el}], el)

RECURSIVE ScanFrom(_, _, _)
ScanFrom(s, i, el) ==
  IF i > Len(cardSelectors) THEN s
  ELSE IF el > Len(ElementSelector) THEN ScanFrom(s, i + 1, 1)
  ELSE IF InDocument(el) /\ Matches(el, cardSelectors[i])
       THEN ScanFrom(ScanElement(s, el, cardSelectors[i]), i, el + 1)
       ELSE ScanFrom(s, i, el + 1)

processExistingCards(s) ==
  IF ~s.isInitialized \/ ~s.intersectionObserver THEN s ELSE ScanFrom(s, 1, 1)

\* The number of times one run of the loops of processExistingCards hands the
\* element to observe.
RECURSIVE RegistrationsFrom(_, _, _, _)
RegistrationsFrom(s, i, el, target) ==
  IF i > Len(cardSelectors) THEN 0
  ELSE IF el > Len(ElementSelector) THEN RegistrationsFrom(s, i + 1, 1, target)
  ELSE IF InDocument(el) /\ Matches(el, cardSelectors[i])
       THEN (IF el = target /\ ScanRegisters(s, el, cardSelectors[i]) THEN 1 ELSE 0)
            + RegistrationsFrom(ScanElement(s, el, cardSelectors[i]), i, el + 1, target)
       ELSE RegistrationsFrom(s, i, el + 1, target)

Registrations(s, el) ==
  IF ~s.isInitialized \/ ~s.intersectionObserver THEN 0
  ELSE RegistrationsFrom(s, 1, 1, el)

\* The card id in the element's data-id attribute (for an image: the id of
\* the card it shows).
CardIdNow(el) == IF el \in redrawn THEN RedrawnCardId ELSE CardIdOf[el]

\* A page that is never unlimited, for comparison.
NoUnlimitedPage == FALSE

IsUnlimitedPage == IncludesTrade(page) \/ IncludesRemelt(page)

\* insertOverlay, then currentOverlaysCount++ (addStatsOverlay, after the
\* stats are there).  ov is the overlay createStatsOverlay built.
insertOverlay(s, el, ov) ==
  IF HasOverlayInside(s, el) THEN s
  ELSE LET s1 == [s EXCEPT !.overlays = Append(@, ov)]
       IN IF InDocument(el) THEN Record(s1, {OverlayAdded}) ELSE s1

AttachStats(s, el, stats) ==
  LET ov == [owner |-> el, cardId |-> CardIdNow(el), ver |-> stats.ver,
             cachedAt |-> stats.at, madeAt |-> s.hist.updatesHandled]
      s1 == insertOverlay(s, el, ov)
  IN [s1 EXCEPT !.currentOverlaysCount = @ + 1]

\* The remelt guard of addStatsOverlay: TRUE when the call returns there.
RemeltGuardBlocks(s, el) ==
  IncludesRemelt(page) /\ HasInnerImg(el) /\ ImageOf[el] \in s.processingIds

RemeltGuardSet(s, el) ==
  IF IncludesRemelt(page) /\ HasInnerImg(el)
  THEN [s EXCEPT !.processingIds = @ \cup {ImageOf[el]},
                 !.expiry[ImageOf[el]] = @ + 1]
  ELSE s

\* if (!isUnlimited && this.currentOverlaysCount >= this.MAX_TOTAL_OVERLAYS)
CapRefuses(s) == ~IsUnlimitedPage /\ s.currentOverlaysCount >= MAX_TOTAL_OVERLAYS

\* addStatsOverlay up to its await (or to its end, when the stats are cached).
addStatsOverlay(s, el) ==
  IF CapRefuses(s) THEN s
  ELSE IF ~InDocument(el) THEN s
  ELSE IF RemeltGuardBlocks(s, el) THEN s
  ELSE LET s1 == RemeltGuardSet(s, el)
       IN IF HasOverlayInside(s1, el) \/ el \in s1.processed THEN s1
          ELSE LET s2 == [s1 EXCEPT !.processed = @ \cup {el}]
               IN IF s2.statsCache[CardIdNow(el)] # NoStats
                  THEN AttachStats(s2, el, s2.statsCache[CardIdNow(el)])
                  ELSE [s2 EXCEPT !.statLookups[el] = @ + 1]

\* processVisibleCards, after extractCardIdAsync gave the id of the element.
\* extractCardId: the id read from the selector's attribute; null for a
\* selector that resolves by image.
extractCardId(el) == IF ResolvesByImage(el) THEN NoId ELSE CardIdNow(el)

\* An extractCardIdAsync that falls back to the number in the image URL.
extractCardIdAsyncFromUrl(el, answer) ==
  IF answer # NoId THEN answer ELSE UrlNumberOf[el]

\* extractCardIdAsync, given what findCardIdByImageUrlAsync returned (read
\* only for a selector that resolves by image).
extractCardIdAsync(el, answer) ==
  IF ResolvesByImage(el)
  THEN IF answer # NoId THEN answer ELSE NoId
  ELSE extractCardId(el)

AfterCardId(s, el) ==
  IF ~HasOverlayInside(s, el) THEN addStatsOverlay(s, el) ELSE s

\* The callback of cards.map in processVisibleCards, for one element.
ProcessVisibleCard(s, el) ==
  IF ~s.isUserActive THEN [s EXCEPT !.pendingCards = @ \cup {el}]
  ELSE IF ResolvesByImage(el)
       THEN IF ImageOf[el] \in s.cardIdCache THEN AfterCardId(s, el)
            ELSE [s EXCEPT !.idLookups[el] = @ + 1]
       ELSE AfterCardId(s, el)

RECURSIVE VisibleFrom(_, _, _)
VisibleFrom(s, cards, el) ==
  IF el > Len(ElementSelector) THEN s
  ELSE IF el \in cards THEN VisibleFrom(ProcessVisibleCard(s, el), cards, el + 1)
       ELSE VisibleFrom(s, cards, el + 1)

processVisibleCards(s, cards) ==
  IF ~s.isUserActive THEN [s EXCEPT !.pendingCards = @ \cup cards]
  ELSE VisibleFrom(s, cards, 1)

resumeProcessing(s) ==
  IF ~s.wasProcessingPaused THEN s
  ELSE LET s1 == [s EXCEPT !.wasProcessingPaused = FALSE]
           s2 == IF s1.pendingCards # {}
                 THEN processVisibleCards([s1 EXCEPT !.pendingCards = {}],
                                          s1.pendingCards)
                 ELSE s1
       IN SetTimer(s2, "resume", 1000)

\* hist.quiet follows the time since the last interaction event in the runs
\* that start with it switched on: "yes" when USER_INACTIVITY_TIMEOUT has
\* passed since the last interaction event, or since start-up when there was
\* none.
SinceInteraction(s, v) == IF s.hist.quiet = "off" THEN s ELSE [s EXCEPT !.hist.quiet = v]

handleUserActivity(s) ==
  LET s1 == IF ~s.isUserActive
            THEN resumeProcessing([s EXCEPT !.isUserActive = TRUE])
            ELSE s
  IN SinceInteraction([s1 EXCEPT !.userInactivityTimer = TRUE], "no")

handleUserInactivity(s) ==
  [s EXCEPT !.isUserActive = FALSE, !.wasProcessingPaused = TRUE]

handleUserLeft(s) ==
  [s EXCEPT !.isUserActive = FALSE, !.wasProcessingPaused = TRUE]

handleUserReturned(s) ==
  resumeProcessing([s EXCEPT !.isUserActive = TRUE])


\* -------------------------------------------------- navigation coordinator

\* The test at the head of handleNavigationTrigger.
\* handleNavigationTrigger without the single-flight test.
NavigationNeverBusy(s) == FALSE

NavigationBusy(s) == s.isNavigationProcessing

\* The remelt branch: the flags of the remelt images, then resetFlag().
RemeltDeepCleanup(s) ==
  LET imgs == {el \in Cards : InDocument(el) /\ ElementSelector[el] = SelRemeltImg}
  IN [s EXCEPT !.processingIds = {},
               !.processed = @ \ imgs,
               !.observing = @ \ imgs,
               !.isNavigationProcessing = FALSE]

\* A busy handleNavigationTrigger that returns without queueing a retry.
DropNavigationRetry(s) == [s EXCEPT !.hist.navUnserved = TRUE]

\* What handleNavigationTrigger does when a rebuild is in flight.
QueueNavigationRetry(s) ==
  [s EXCEPT !.navigationTimeout = TRUE, !.hist.navUnserved = TRUE]

handleNavigationTrigger(s) ==
  IF NavigationBusy(s) THEN QueueNavigationRetry(s)
  ELSE LET s1 == [s EXCEPT !.isNavigationProcessing = TRUE,
                           !.hist.navUnserved = FALSE,
                           !.hist.served = @ \/ s.hist.navUnserved]
           s2 == removeAllStatsOverlays(clearAllProcessedFlags(s1))
       IN IF IncludesRemelt(page) THEN RemeltDeepCleanup(s2)
          ELSE [s2 EXCEPT !.navDone = Append(@, TRUE)]

\* The 100 ms timer of a rebuild: the re-scan, then resetFlag().  resetFlag
\* cancels the 5 s watchdog that was set in the same task as this timer, and
\* timers of one page run in the order of their due times, so the watchdog
\* never runs: navDone holds one entry per rebuild whose timer is pending.
\* The 100 ms timer of a rebuild without resetFlag(), for comparison.
NavigationDoneKeepsFlag(s) ==
  processExistingCardsDebounced([s EXCEPT !.navDone = Tail(@)])

NavigationDone(s) ==
  LET s1 == processExistingCardsDebounced([s EXCEPT !.navDone = Tail(@)])
  IN [s1 EXCEPT !.isNavigationProcessing = FALSE]

\* ------------------------------------------------------------------ cleanup

performCleanup(s) ==
  LET doc == DocumentOverlays(s)
      stale == {doc[k] : k \in {j \in 1..Len(doc) : ~InDocument(s.overlays[doc[j]].owner)}}
      s1 == [s EXCEPT !.overlays = RemoveAt(@, stale),
                      !.currentOverlaysCount = @ - Cardinality(stale)]
      excess == DocumentOverlays(s1)
      toRemove == s1.currentOverlaysCount - MAX_TOTAL_OVERLAYS
  IN IF ~IsUnlimitedPage /\ s1.currentOverlaysCount > MAX_TOTAL_OVERLAYS
     THEN LET n == IF toRemove < Len(excess) THEN toRemove ELSE Len(excess)
              out == {excess[k] : k \in 1..n}
              s2 == [s1 EXCEPT !.overlays = RemoveAt(@, out),
                               !.currentOverlaysCount = @ - n]
          IN IF out = {} THEN s2 ELSE Record(s2, {OverlayRemoved})
     ELSE s1

\* ---------------------------------------------------------- mutation watcher

\* The cards below a node of a mutation record.
CardsInside(r) ==
  CASE r.node = "inventory" -> {el \in InInventory : itemAttached[el]}
    [] r.node = "item" -> IF IsImg(r.el) THEN {r.el} ELSE {}
    [] OTHER -> {}

\* The watcher without its own-node guard.
IsOwnNodeUnguarded(s, r) == FALSE

\* The node is an overlay, lies inside one or contains one (classList.contains,
\* closest, querySelector of '.card-stats-overlay' and '.card-stats').
IsOwnNode(s, r) ==
  CASE r.node \in {"overlay", "inOverlay"} -> TRUE
    [] r.node = "inventory" ->
         \E el \in InInventory : itemAttached[el] /\ OverlaysOf(s, el) # {}
    [] r.node = "item" -> OverlaysOf(s, r.el) # {}
    [] OTHER -> HasOverlayInside(s, r.el)

\* isCardElement: a selector matches, or a card attribute or a class name that
\* includes 'card' is found on the node or an ancestor.  The class name of an
\* overlay, 'card-stats-overlay', includes 'card', and the spans inside it
\* carry data-card-id.
isCardElement(r) ==
  CASE r.node \in {"overlay", "inOverlay"} -> TRUE
    [] r.node = "inventory" -> FALSE
    [] r.node = "item" -> ~IsImg(r.el)
    [] OTHER -> TRUE

isTradePageContainer(r) == IncludesTrade(page) /\ r.node = "inventory"

hasCardsInside(r) == CardsInside(r) # {}

isTradeRelatedElement(s, r, attributeName) ==
  IF attributeName = "" THEN FALSE
  ELSE IF IsOwnNode(s, r) THEN FALSE
  ELSE IF ~IsActualTradePage(page) THEN FALSE
  ELSE IF attributeName \in {"data-id", "data-rank", "src", "href", "data-card-id"}
       THEN isCardElement(r) \/ isTradePageContainer(r)
  ELSE IF attributeName \in {"data-loaded", "data-updated", "src", "data-id", "data-rank"}
       THEN isCardElement(r)
  ELSE FALSE

\* An added node the callback does not skip.
AddedCounts(s, r) == r.type = "added" /\ ~IsOwnNode(s, r)

AddedIsTradeUpdate(s, r) ==
  AddedCounts(s, r) /\ ~IsCardsCatalog(page) /\ isTradePageContainer(r)

AddedShouldProcess(s, r) ==
  /\ AddedCounts(s, r)
  /\ \/ IF IsCardsCatalog(page) THEN isCardElement(r)
        ELSE isTradePageContainer(r) \/ isCardElement(r)
     \/ hasCardsInside(r)

AttributeCounts(s, r) ==
  r.type = "attributes" /\ isTradeRelatedElement(s, r, r.attr)

\* Removed nodes: clearProcessedFlags for a large container that holds cards.
RemovedContainerCards(batch) ==
  UNION {CardsInside(r) :
           r \in {q \in batch : /\ q.type = "removed"
                                /\ hasCardsInside(q)
                                /\ q.node = "inventory"}}

\* The MutationObserver callback of startDOMObserver, on one batch of records.
MutationCallback(s, batch) ==
  LET shouldProcess ==
        \E r \in batch : AddedShouldProcess(s, r) \/ AttributeCounts(s, r)
      isTradePageUpdate ==
        \E r \in batch : AddedIsTradeUpdate(s, r) \/ AttributeCounts(s, r)
      reset == {r.el : r \in {q \in batch : AttributeCounts(s, q)}}
      own == \A r \in batch : r.node \in {"overlay", "inOverlay"}
      s1 == [s EXCEPT !.mutations = {},
                      !.processed = (@ \ RemovedContainerCards(batch)) \ reset,
                      !.hist.ownBatches = @ \/ own]
      s2 == IF shouldProcess /\ isTradePageUpdate
            THEN clearAllProcessedFlags(s1) ELSE s1
  IN IF shouldProcess
     THEN SetTimer(s2, "mut", IF isTradePageUpdate THEN 800 ELSE 300)
     ELSE s2


\* ------------------------------------------------------- the database service
\* DatabaseService.findCardByImageUrl.  A URL is a sequence of characters; an
\* absolute URL starts with Origin, which stands for 'https://' and the first
\* character of the host.  "?" stands for either of '?' and '#'.

Origin == "https://h"
PathChars == {"/", "a", "b"}
UrlChars == PathChars \cup {"?"}

Strings(chars, n) == UNION {[1..k -> chars] : k \in 0..n}

\* The code units of the characters, as far as their order goes.
CharRank(c) == CASE c = "/" -> 1 [] c = "?" -> 2 [] c = "a" -> 3 [] c = "b" -> 4

Unasked == -1

RECURSIVE DropUntilSlash(_)
DropUntilSlash(u) ==
  IF u = <<>> \/ u[1] = "/" THEN u ELSE DropUntilSlash(Tail(u))

\* url.replace(/^https?:\/\/[^\/]+/, '')
StripOrigin(url) ==
  IF url # <<>> /\ url[1] = Origin THEN DropUntilSlash(Tail(url)) ELSE url

\* normalized.replace(/^\/+/, '')
RECURSIVE StripLeadingSlashes(_)
StripLeadingSlashes(u) ==
  IF u # <<>> /\ u[1] = "/" THEN StripLeadingSlashes(Tail(u)) ELSE u

\* normalized.split('?')[0].split('#')[0]
RECURSIVE BeforeQuery(_)
BeforeQuery(u) ==
  IF u = <<>> \/ u[1] = "?" THEN <<>> ELSE <<u[1]>> \o BeforeQuery(Tail(u))

normalizeUrl(url) == BeforeQuery(StripLeadingSlashes(StripOrigin(url)))

\* a.includes(b)
includes(a, b) ==
  \E i \in 0..(Len(a) - Len(b)) : SubSeq(a, i + 1, i + Len(b)) = b

\* u.split('/').pop()
LastSegment(u) ==
  LET slashes == {i \in 1..Len(u) : u[i] = "/"}
  IN IF slashes = {} THEN u
     ELSE SubSeq(u, 1 + CHOOSE i \in slashes : \A j \in slashes : j <= i, Len(u))

RECURSIVE StrLess(_, _)
StrLess(a, b) ==
  IF a = <<>> THEN b # <<>>
  ELSE IF b = <<>> THEN FALSE
  ELSE IF a[1] = b[1] THEN StrLess(Tail(a), Tail(b))
  ELSE CharRank(a[1]) < CharRank(b[1])

\* The order of the index 'cardImage': by key, then by primary key.
KeyLess(c, d) ==
  \/ StrLess(c.cardImage, d.cardImage)
  \/ c.cardImage = d.cardImage /\ c.cardId < d.cardId

\* The records as imageIndex.openCursor() visits them.
RECURSIVE InIndexOrder(_)
InIndexOrder(store) ==
  IF store = {} THEN <<>>
  ELSE LET first == CHOOSE c \in store : \A d \in store \ {c} : KeyLess(c, d)
       IN <<first>> \o InIndexOrder(store \ {first})

\* The cardId of the first record the cursor visits among the matching ones.
FirstCard(store, matching) ==
  LET hits == SelectSeq(InIndexOrder(store), LAMBDA c : c \in matching)
  IN IF hits = <<>> THEN NoId ELSE hits[1].cardId

\* imageIndex.get(key), then result.cardId
IndexGet(store, key) == FirstCard(store, {c \in store : c.cardImage = key})

\* The cursor loop of findCardByImageUrl.
PartialMatch(store, normalizedSearchUrl) ==
  FirstCard(store,
            {c \in store :
               \/ includes(normalizeUrl(c.cardImage), normalizedSearchUrl)
               \/ includes(normalizedSearchUrl, normalizeUrl(c.cardImage))})

findCardByFileName(store, searchUrl) ==
  LET searchFileName == LastSegment(searchUrl)
  IN IF searchFileName = <<>> THEN NoId
     ELSE FirstCard(store,
                    {c \in store : /\ LastSegment(c.cardImage) # <<>>
                                   /\ LastSegment(c.cardImage) = searchFileName})

findCardByImageUrl(store, url) ==
  LET normalizedSearchUrl == normalizeUrl(url)
      exact == IndexGet(store, normalizedSearchUrl)
      withSlash == IndexGet(store, <<"/">> \o normalizedSearchUrl)
      partial == PartialMatch(store, normalizedSearchUrl)
  IN IF exact # NoId THEN exact
     ELSE IF withSlash # NoId THEN withSlash
     ELSE IF partial # NoId THEN partial
     ELSE findCardByFileName(store, normalizedSearchUrl)

\* No call of the database service is in progress.
LookupAtRest ==
  /\ cardsStore = {}
  /\ imageUrl = <<>>
  /\ foundCard = Unasked

\* ----------------------------------------------------- the background service
\* BackgroundService of background.ts.  worker.step is what init() awaits:
\* "off" when the service worker is not followed, "start" before init(),
\* "dbInit", "localCheck", "githubCheck" and "forcedCheck" for the awaits of
\* init(), "running" after its try block, "failed" after its catch.

NoResponse ==
  [type |-> "none", answered |-> FALSE, success |-> FALSE, dbWorks |-> FALSE]

WorkerOff ==
  [step |-> "off", listening |-> FALSE, lastCheck |-> "none", response |-> NoResponse]

\* The messages the content script sends, and some of the popup's.
ContentMessages == {"ping", "getCardsCount", "getCardStats", "findCardByImage"}
PopupMessages == {"forceUpdate", "getDatabaseInfo", "checkUpdates"}
MessageTypes == ContentMessages \cup PopupMessages

\* What a run of checkGitHubIfNeeded or forceGitHubCheck can come to.
CheckOutcomes == {"skipped", "upToDate", "updated", "failed"}
ForcedOutcomes == {"updated", "failed"}

\* checkGitHubIfNeeded and forceGitHubCheck: the dataset is replaced, and
\* notifyTabs called, exactly when updateDatabase returned success.
checkReplaces(outcome) == outcome = "updated"
checkNotifies(outcome) == outcome = "updated"

\* handleMessage: the response passed to sendResponse and whether the dataset
\* was replaced and notifyTabs called.  dbWorks: the calls of dbService
\* resolve; updated: updateDatabase returned success.  A response without a
\* success property has success FALSE.
handleMessage(type, dbWorks, updated) ==
  LET Response(success) ==
        [type |-> type, answered |-> TRUE, success |-> success, dbWorks |-> dbWorks]
  IN CASE type = "forceUpdate" ->
            [response |-> Response(updated), replaced |-> updated, notified |-> FALSE]
       [] type \in {"getCardsCount", "getCardStats"} ->
            [response |-> Response(dbWorks), replaced |-> FALSE, notified |-> FALSE]
       [] type \in {"getDatabaseInfo", "checkUpdates"} ->
            [response |-> Response(FALSE), replaced |-> FALSE, notified |-> FALSE]
       [] OTHER ->
            [response |-> Response(FALSE), replaced |-> FALSE, notified |-> FALSE]

\* sendMessage with no listener registered: the promise rejects.
noReceiver(type, dbWorks) ==
  [response |-> [type |-> type, answered |-> FALSE, success |-> FALSE,
                 dbWorks |-> dbWorks],
   replaced |-> FALSE, notified |-> FALSE]

ServiceAtRest ==
  /\ LookupAtRest
  /\ worker = WorkerOff

\* ------------------------------------------------ initialisation, step by step
\* boot.step is the step init() waits for: "off" when the attempts are not
\* followed step by step (InitSucceeds and InitAttemptFails then stand for a
\* whole attempt), "start" before init() is called, "ping" and "count" while
\* a message is in flight, "wake", "backoff" and "outer" while a timer of
\* boot.delay ms is pending, "done" after the set-up.

BootOff ==
  [step |-> "off", pings |-> 0, retryDelay |-> InitialRetryDelay, delay |-> 0,
   round |-> 0, failedBy |-> "none", failedPings |-> 0, setUps |-> 0]

\* chrome.runtime.sendMessage({ type: 'ping' })
sendPing(b) == [b EXCEPT !.step = "ping", !.pings = @ + 1, !.delay = 0]

\* The head of the for loop's body, for the attempt that starts.
startAttempt(b) == sendPing([b EXCEPT !.pings = 0])

\* A ping rejects: the catch blocks of 228-244.
pingRejected(b) ==
  CASE b.pings = 1 -> [b EXCEPT !.step = "wake", !.delay = 100]
    [] b.pings = 2 -> [b EXCEPT !.step = "wake", !.delay = 500]
    [] OTHER -> [b EXCEPT !.step = "thrown"]

\* A ping resolves: if (!pingResponse?.success) throw ...
pingAnswered(b, success) ==
  IF success THEN [b EXCEPT !.step = "count"] ELSE [b EXCEPT !.step = "thrown"]

\* init() without the setTimeout of its catch, for comparison.
attemptFailedForGood(b, att, by) ==
  LET b1 == [b EXCEPT !.failedBy = by, !.failedPings = b.pings]
  IN IF att < maxRetryAttempts
     THEN [b1 EXCEPT !.step = "backoff", !.delay = b.retryDelay]
     ELSE [b1 EXCEPT !.step = "gaveUp", !.delay = 0]

\* catch (error) of the loop, and catch (error) of init() after the last
\* attempt.
attemptFailed(b, att, by) ==
  LET b1 == [b EXCEPT !.failedBy = by, !.failedPings = b.pings]
  IN IF att < maxRetryAttempts
     THEN [b1 EXCEPT !.step = "backoff", !.delay = b.retryDelay]
     ELSE [b1 EXCEPT !.step = "outer", !.delay = OuterRetryDelay]

\* The continuation of await new Promise(... this.retryDelay):
\* this.retryDelay *= 2, then the next attempt.
backoffElapsed(b) == startAttempt([b EXCEPT !.retryDelay = @ * 2])

\* The attempts are not followed step by step.
BootAtRest ==
  /\ boot = BootOff
  /\ backgroundReady = TRUE

\* ------------------------------------------------------------ initial state

\* The state after the constructor: the cleanup interval and the activity
\* listeners are set up, init() has not yet succeeded.  The host page shows
\* its cards.
InitPage(scan, quiet, path, shown) ==
  /\ page = path
  /\ redrawn = {}
  /\ itemAttached = [c \in Cards |-> c \in shown]
  /\ inventoryAttached = TRUE
  /\ tabHidden = FALSE
  /\ dbVersion = 0
  /\ notifications = 0
  /\ isInitialized = FALSE
  /\ attempt = 1
  /\ intersectionObserver = FALSE
  /\ cleanupTimer = TRUE
  /\ clickHandler = FALSE
  /\ isUserActive = TRUE
  /\ wasProcessingPaused = FALSE
  /\ pendingCards = {}
  /\ userInactivityTimer = FALSE
  /\ observing = {}
  /\ processed = {}
  /\ ioTargets = {}
  /\ ioDue = {}
  /\ overlays = <<>>
  /\ currentOverlaysCount = 0
  /\ statsCache = [id \in CardIds |-> NoStats]
  /\ cardIdCache = {}
  /\ processingIds = {}
  /\ isNavigationProcessing = FALSE
  /\ navigationTimeout = FALSE
  /\ navDone = <<>>
  /\ timers = <<>>
  /\ expiry = [i \in Images |-> 0]
  /\ inDebounceWindow = FALSE
  /\ idLookups = [c \in Cards |-> 0]
  /\ statLookups = [c \in Cards |-> 0]
  /\ mutations = {}
  /\ hist = [updatesHandled |-> 0, refreshDue |-> {}, scanned |-> FALSE, noId |-> {},
             ownBatches |-> FALSE, navUnserved |-> FALSE, served |-> FALSE,
             scan |-> scan, quiet |-> quiet, destroyed |-> FALSE, twice |-> FALSE, initFailed |-> FALSE,
             threw |-> FALSE]

InitShowing(scan, quiet, path, shown) ==
  /\ InitPage(scan, quiet, path, shown)
  /\ ServiceAtRest
  /\ BootAtRest

\* The constructor has run and init() is about to be called; its steps are
\* followed one by one.
InitBoot ==
  /\ \E path \in Paths : InitPage("off", "off", path, PageCards(path))
  /\ ServiceAtRest
  /\ boot = [BootOff EXCEPT !.step = "start"]
  /\ backgroundReady \in BOOLEAN

\* An exception that no handler catches.
Thrown(s) == [s EXCEPT !.hist.threw = TRUE]

\* catch (error) { console.error(...) }: the catch blocks of addStatsOverlay,
\* findCardIdByImageUrlAsync and init only log.
catchError(s) == s

\* The failure branch of a getCardStats lookup that clears the flag, so that
\* the element is tried again, for comparison.
RetryStatsLater(s, el) == [s EXCEPT !.processed = @ \ {el}]

\* addStatsOverlay after a getCardStats lookup that gave no stats: the early
\* return on a response without success or data; nothing is undone.
NoStatsReturned(s, el) == s

\* addStatsOverlay from the await of getCardStats on: outcome is "data" (a
\* response with success and data), "nodata" (a response without) or
\* "reject" (sendMessage rejects, or the response is undefined).
getCardStatsReturns(s, el, outcome, stats) ==
  LET s1 == [s EXCEPT !.statLookups[el] = @ - 1]
  IN CASE outcome = "data" ->
            AttachStats([s1 EXCEPT !.statsCache[CardIdNow(el)] = stats], el, stats)
       [] outcome = "nodata" -> NoStatsReturned(s1, el)
       [] outcome = "reject" -> catchError(NoStatsReturned(s1, el))

\* processVisibleCards from the await of findCardByImage on: outcome is
\* "found", "none" (a response without success or cardId) or "reject".
findCardByImageReturns(s, el, outcome) ==
  LET found == outcome = "found"
      answer == IF found THEN CardIdOf[el] ELSE NoId
      s1 == [s EXCEPT !.idLookups[el] = @ - 1,
                      !.cardIdCache = IF found THEN @ \cup {ImageOf[el]} ELSE @,
                      !.hist.noId = IF found THEN @ \ {el} ELSE @ \cup {el}]
      s2 == IF outcome = "reject" THEN catchError(s1) ELSE s1
  IN IF extractCardIdAsync(el, answer) # NoId THEN AfterCardId(s2, el) ELSE s2

\* destroy() with the guard of the observer left out, for comparison:
\* disconnect() is called on null.
destroyUnguarded(s) == [s EXCEPT !.hist.threw = @ \/ ~s.intersectionObserver]

\* destroy(): the timers it clears are those whose handle the instance keeps;
\* the MutationObserver, the activity listeners and the message listener are
\* not touched.
destroy(s) ==
  LET s1 == [s EXCEPT !.cleanupTimer = FALSE,
                      !.userInactivityTimer = FALSE,
                      !.navigationTimeout = FALSE,
                      !.clickHandler = FALSE,
                      !.intersectionObserver = FALSE,
                      !.ioTargets = {},
                      !.ioDue = {},
                      !.cardIdCache = {},
                      !.statsCache = [id \in CardIds |-> NoStats],
                      !.pendingCards = {},
                      !.hist.destroyed = TRUE]
  IN removeAllStatsOverlays(s1)

InitWith(scan) == \E path \in Paths : InitShowing(scan, "off", path, PageCards(path))

Init == InitWith("off")

\* The remelt page that shows a card three times.
InitDuplicates == InitShowing("off", "off", PathRemelt, DuplicateCards)

\* The trade page that shows a wrapper as well.
InitTrade == InitShowing("off", "off", PathTrade, TradeCards)

\* The state after the constructor, with the time since the last interaction
\* event followed.
InitGate == \E path \in Paths : InitShowing("off", "no", path, PageCards(path))

\* The same state, with the invocations of processExistingCardsDebounced
\* followed.
InitFollowed == InitWith("none")

\* ------------------------------------------------------------------ actions

\* No MutationObserver callback is owed: the callback runs at the end of the
\* task that changed the document, before any other task.
Idle == mutations = {}

\* The tail of a successful attempt: isInitialized, initLazyLoading,
\* setupMessageListener, startDOMObserver, setupNavigationTriggers and the
\* first processExistingCardsDebounced.
setUp(s) ==
  processExistingCardsDebounced(
    [s EXCEPT !.isInitialized = TRUE,
              !.attempt = 0,
              !.intersectionObserver = TRUE,
              !.clickHandler = IncludesTrade(page) \/ IncludesRemelt(page)])

\* initWithRetry, the attempt that succeeds (the ping is answered).
InitSucceeds ==
  /\ Idle /\ ~isInitialized /\ boot.step = "off"
  /\ Commit(setUp(Cur))
  /\ UNCHANGED envVars

\* The callback of the IntersectionObserver, for the entries that intersect.
IntersectionCallback ==
  /\ Idle
  /\ \E cards \in SUBSET {el \in ioTargets : InDocument(el)} :
       /\ cards # {}
       /\ Commit(processVisibleCards([Cur EXCEPT !.ioDue = @ \ cards], cards))
  /\ UNCHANGED envVars

\* The answer to findCardByImage, and the rest of processVisibleCards.
ImageLookupFails(el) ==
  /\ Idle /\ idLookups[el] > 0
  /\ \E outcome \in {"none", "reject"} :
       Commit(findCardByImageReturns(Cur, el, outcome))
  /\ UNCHANGED envVars

ImageLookupReturns ==
  \E el \in Cards :
    \/ /\ Idle /\ idLookups[el] > 0
       /\ Commit(findCardByImageReturns(Cur, el, "found"))
       /\ UNCHANGED envVars
    \/ ImageLookupFails(el)

StatsLookupFails(el) ==
  /\ Idle /\ statLookups[el] > 0
  /\ \E outcome \in {"nodata", "reject"} :
       Commit(getCardStatsReturns(Cur, el, outcome, NoStats))
  /\ UNCHANGED envVars

\* The answer to getCardStats, and the rest of addStatsOverlay.
StatsLookupReturns ==
  \E el \in Cards :
    \/ /\ Idle /\ statLookups[el] > 0
       /\ Commit(getCardStatsReturns(Cur, el, "data",
                                     [ver |-> dbVersion, at |-> hist.updatesHandled]))
       /\ UNCHANGED envVars
    \/ StatsLookupFails(el)

\* An attempt of initWithRetry fails: ping or getCardsCount rejects, or ping
\* answers without success.  The catch of the loop waits retryDelay and tries
\* again; after the last attempt the catch of init sets a 5 s timer for init.
InitAttemptFails ==
  /\ Idle /\ ~isInitialized /\ boot.step = "off"
  /\ Commit(catchError([Cur EXCEPT !.attempt = IF @ < maxRetryAttempts THEN @ + 1 ELSE 1,
                                   !.hist.initFailed = TRUE]))
  /\ UNCHANGED envVars

\* The timer of processExistingCardsDebounced.
ScanTimerFires ==
  /\ Idle
  /\ \E i \in Pending(Cur, "scan") :
       /\ CanRun(Cur, i)
       /\ LET s1 == TakeTimer(Cur, i)
          IN Commit(IF s1.isUserActive
                    THEN processExistingCards(
                           Follow([s1 EXCEPT !.hist.scanned = TRUE],
                                  IF s1.hist.scan = "coalesced"
                                  THEN "trailed" ELSE "none"))
                    ELSE s1)
  /\ UNCHANGED envVars

\* The settle delay of databaseUpdated, the delay of resumeProcessing and the
\* delay of the mutation watcher: each calls processExistingCardsDebounced.
DelayedRescan(k) ==
  /\ Idle
  /\ \E i \in Pending(Cur, k) :
       /\ CanRun(Cur, i)
       /\ Commit(processExistingCardsDebounced(TakeTimer(Cur, i)))
  /\ UNCHANGED envVars

DelayedRescanFires == \E k \in {"dbSettle", "resume", "mut"} : DelayedRescan(k)

DebounceWindowElapses ==
  /\ Idle /\ inDebounceWindow
  /\ Commit(CloseWindow(Cur))
  /\ UNCHANGED envVars

\* The 5 s timer of a processingIds entry.
ExpiryFires ==
  /\ Idle
  /\ \E i \in Images :
       /\ expiry[i] > 0
       /\ Commit([Cur EXCEPT !.expiry[i] = @ - 1, !.processingIds = @ \ {i}])
  /\ UNCHANGED envVars

\* mousedown, mousemove, keypress, scroll, touchstart or click.
UserActivity ==
  /\ Idle /\ ~tabHidden
  /\ Commit(handleUserActivity(Cur))
  /\ UNCHANGED envVars

\* The timeout set by the last interaction event runs: USER_INACTIVITY_TIMEOUT
\* has passed since that event.
InactivityTimerFires ==
  /\ Idle /\ userInactivityTimer
  /\ Commit(handleUserInactivity(
              SinceInteraction([Cur EXCEPT !.userInactivityTimer = FALSE], "yes")))
  /\ UNCHANGED envVars

\* USER_INACTIVITY_TIMEOUT passes while no inactivity timeout is pending: no
\* interaction event has happened since start-up.  No code runs.
QuietPeriodElapses ==
  /\ Idle /\ ~userInactivityTimer /\ hist.quiet = "no"
  /\ Commit(SinceInteraction(Cur, "yes"))
  /\ UNCHANGED envVars

\* visibilitychange
VisibilityChange ==
  /\ Idle
  /\ tabHidden' = ~tabHidden
  /\ Commit(IF tabHidden
            THEN handleUserReturned(Cur)
            ELSE handleUserLeft(Cur))
  /\ UNCHANGED <<page, itemAttached, inventoryAttached, dbVersion, notifications, redrawn, serviceVars, bootVars>>

\* A click or change on a navigation trigger (setupTriggers): the activity
\* listener runs, then clickHandler schedules handleNavigationTrigger 500 ms
\* ahead (1000 ms for three of the selectors: not shorter than a window either).
TriggerClick ==
  /\ Idle /\ ~tabHidden /\ clickHandler
  /\ Commit(SetTimer(handleUserActivity(Cur), "navClick", 500))
  /\ UNCHANGED envVars

NavClickFires ==
  /\ Idle
  /\ \E i \in Pending(Cur, "navClick") :
       /\ CanRun(Cur, i)
       /\ Commit(handleNavigationTrigger(TakeTimer(Cur, i)))
  /\ UNCHANGED envVars

NavRetryFires ==
  /\ Idle /\ navigationTimeout
  /\ Commit(handleNavigationTrigger([Cur EXCEPT !.navigationTimeout = FALSE]))
  /\ UNCHANGED envVars

NavDoneFires ==
  /\ Idle /\ navDone # <<>>
  /\ Commit(NavigationDone(Cur))
  /\ UNCHANGED envVars

\* The cleanup interval.
CleanupTimerFires ==
  /\ Idle /\ cleanupTimer
  /\ Commit(performCleanup(Cur))
  /\ UNCHANGED envVars

\* The background replaces the dataset and notifies the tabs.
DatasetReplaced ==
  /\ Idle /\ dbVersion < MaxVersion
  /\ dbVersion' = dbVersion + 1
  /\ notifications' = notifications + 1
  /\ UNCHANGED <<page, itemAttached, inventoryAttached, tabHidden, scriptVars, redrawn, serviceVars, bootVars>>

\* The listener of setupMessageListener; before init there is no listener.
DatabaseUpdatedMessage ==
  /\ Idle /\ notifications > 0
  /\ notifications' = notifications - 1
  /\ Commit(IF ~isInitialized THEN Cur
            ELSE LET due == IF isUserActive
                            THEN {el \in Cards : InDocument(el) /\ OverlaysOf(Cur, el) # {}}
                            ELSE {}
                     s1 == [Cur EXCEPT !.hist.updatesHandled = @ + 1,
                                       !.hist.refreshDue = due,
                                       !.hist.scanned = FALSE]
                 IN SetTimer(clearAllProcessedFlags(s1), "dbSettle", 500))
  /\ UNCHANGED <<page, itemAttached, inventoryAttached, tabHidden, dbVersion, redrawn, serviceVars, bootVars>>

\* The MutationObserver callback, on the records of the task that just ended.
MutationObserverCallback ==
  /\ mutations # {}
  /\ Commit(MutationCallback(Cur, mutations))
  /\ UNCHANGED envVars

\* ------------------------------------------------------------ the host page

HostRoom == Idle /\ Cardinality(Pending(Cur, "mut")) < MaxTimers

HostDetachesItem ==
  /\ HostRoom
  /\ \E el \in Cards :
       /\ itemAttached[el]
       /\ itemAttached' = [itemAttached EXCEPT ![el] = FALSE]
       /\ Commit(IF InDocument(el)
                 THEN Record([Cur EXCEPT !.ioDue = @ \ {el}],
                             {[type |-> "removed", node |-> "item", el |-> el, attr |-> ""]})
                 ELSE Cur)
  /\ UNCHANGED <<page, inventoryAttached, tabHidden, dbVersion, notifications, redrawn, serviceVars, bootVars>>

HostAttachesItem ==
  /\ HostRoom
  /\ \E el \in PageCards(page) :
       /\ ~itemAttached[el]
       /\ itemAttached' = [itemAttached EXCEPT ![el] = TRUE]
       /\ Commit(IF el \in InInventory => inventoryAttached
                 THEN Record([Cur EXCEPT !.ioDue = @ \cup ({el} \cap ioTargets)],
                             {[type |-> "added", node |-> "item", el |-> el, attr |-> ""]})
                 ELSE Cur)
  /\ UNCHANGED <<page, inventoryAttached, tabHidden, dbVersion, notifications, redrawn, serviceVars, bootVars>>

HostDetachesInventory ==
  /\ HostRoom /\ inventoryAttached /\ IncludesTrade(page)
  /\ inventoryAttached' = FALSE
  /\ Commit(Record([Cur EXCEPT !.ioDue = @ \ InInventory],
                   {[type |-> "removed", node |-> "inventory", el |-> 0, attr |-> ""]}))
  /\ UNCHANGED <<page, itemAttached, tabHidden, dbVersion, notifications, redrawn, serviceVars, bootVars>>

HostAttachesInventory ==
  /\ HostRoom /\ ~inventoryAttached
  /\ inventoryAttached' = TRUE
  /\ Commit(Record([Cur EXCEPT !.ioDue =
                       @ \cup {el \in InInventory \cap ioTargets : itemAttached[el]}],
                   {[type |-> "added", node |-> "inventory", el |-> 0, attr |-> ""]}))
  /\ UNCHANGED <<page, itemAttached, tabHidden, dbVersion, notifications, redrawn, serviceVars, bootVars>>

\* The host page (or a style sheet script) changes an observed attribute of a
\* card element or of an overlay node.
HostChangesAttribute ==
  /\ HostRoom
  /\ \E a \in AttrNames :
       \/ \E el \in Cards :
            /\ InDocument(el)
            /\ Commit(Record(Cur, {[type |-> "attributes", node |-> "card",
                                    el |-> el, attr |-> a]}))
       \/ \E n \in {"overlay", "inOverlay"} :
            /\ DocumentOverlays(Cur) # <<>>
            /\ Commit(Record(Cur, {[type |-> "attributes", node |-> n,
                                    el |-> 0, attr |-> a]}))
  /\ UNCHANGED envVars

\* The host page redraws a card in place: the same element gets another
\* data-id.  Followed for an element whose id is read from data-id and that
\* has no lookup in flight.
HostRedrawsCard ==
  /\ HostRoom
  /\ \E el \in Cards \ redrawn :
       /\ InDocument(el) /\ ~ResolvesByImage(el)
       /\ idLookups[el] = 0 /\ statLookups[el] = 0
       /\ redrawn' = redrawn \cup {el}
       /\ Commit(Record(Cur, {[type |-> "attributes", node |-> "card",
                               el |-> el, attr |-> "data-id"]}))
  /\ UNCHANGED <<page, itemAttached, inventoryAttached, tabHidden, dbVersion,
                 notifications, serviceVars, bootVars>>

\* beforeunload (the page may stay: the unload can be cancelled), or a call
\* through window.cardStatsOverlay.
Destroy ==
  /\ Idle
  /\ Commit([destroy(Cur) EXCEPT !.hist.twice = @ \/ hist.destroyed])
  /\ UNCHANGED envVars

\* The catch of the attempt loop, for a step that threw.
Caught(b, att, by) == IF b.step = "thrown" THEN attemptFailed(b, att, by) ELSE b

\* The rounds of attempts that fail are bounded.
BootBound(b) == b.step = "outer" => b.round < MaxRounds

\* cardStatsOverlay.init(), called once after the constructor.
InitCalled ==
  /\ boot.step = "start"
  /\ boot' = startAttempt([boot EXCEPT !.round = 1])
  /\ UNCHANGED <<pageVars, serviceVars, backgroundReady, scriptVars>>

\* A ping rejects: there is no receiver for the message.
PingRejects ==
  /\ boot.step = "ping" /\ ~backgroundReady
  /\ LET b == Caught(pingRejected(boot), attempt, "ping")
     IN BootBound(b) /\ boot' = b
  /\ UNCHANGED <<pageVars, serviceVars, backgroundReady, scriptVars>>

\* A ping resolves, with success exactly if the background is ready.
PingResolves ==
  /\ boot.step = "ping"
  /\ LET b == Caught(pingAnswered(boot, backgroundReady), attempt, "ping")
     IN BootBound(b) /\ boot' = b
  /\ UNCHANGED <<pageVars, serviceVars, backgroundReady, scriptVars>>

\* The 100 ms or 500 ms timer before the next ping.
WakeTimerFires ==
  /\ boot.step = "wake"
  /\ boot' = sendPing(boot)
  /\ UNCHANGED <<pageVars, serviceVars, backgroundReady, scriptVars>>

\* getCardsCount resolves, with any response, and the set-up runs; or it
\* rejects.
CardsCountResolves ==
  /\ boot.step = "count"
  /\ \/ /\ Idle
        /\ Commit(setUp(Cur))
        /\ boot' = [boot EXCEPT !.step = "done", !.setUps = @ + 1]
     \/ /\ ~backgroundReady
        /\ LET b == attemptFailed(boot, attempt, "count")
           IN BootBound(b) /\ boot' = b
        /\ UNCHANGED scriptVars
  /\ UNCHANGED <<pageVars, serviceVars, backgroundReady>>

\* The timer of this.retryDelay ms between two attempts of a round.
BackoffTimerFires ==
  /\ boot.step = "backoff"
  /\ boot' = backoffElapsed(boot)
  /\ Commit([Cur EXCEPT !.attempt = @ + 1])
  /\ UNCHANGED <<pageVars, serviceVars, backgroundReady>>

\* The 5 s timer of init()'s catch: init() again, a new round.
OuterRetryFires ==
  /\ boot.step = "outer" /\ ~isInitialized
  /\ boot' = startAttempt([boot EXCEPT !.round = @ + 1])
  /\ Commit([Cur EXCEPT !.attempt = 1])
  /\ UNCHANGED <<pageVars, serviceVars, backgroundReady>>

\* The service worker starts answering ping with success, or stops.
BackgroundTurns ==
  /\ boot.step # "off"
  /\ backgroundReady' = ~backgroundReady
  /\ UNCHANGED <<pageVars, serviceVars, boot, scriptVars>>

\* backgroundService.init() is called when the service worker starts.
WorkerStarts ==
  /\ worker.step = "start"
  /\ worker' = [worker EXCEPT !.step = "dbInit"]
  /\ UNCHANGED <<pageVars, cardsStore, imageUrl, foundCard, bootVars, scriptVars>>

\* await this.dbService.init() resolves, or rejects into the catch of init().
DbInitSettles ==
  /\ worker.step = "dbInit"
  /\ \E ok \in BOOLEAN :
       worker' = [worker EXCEPT !.step = IF ok THEN "localCheck" ELSE "failed"]
  /\ UNCHANGED <<pageVars, cardsStore, imageUrl, foundCard, bootVars, scriptVars>>

\* getDatabaseInfo and getCardsCount resolve, with or without local data, or
\* one of them rejects.
LocalCheckSettles ==
  /\ worker.step = "localCheck"
  /\ \E next \in {"githubCheck", "forcedCheck", "failed"} :
       worker' = [worker EXCEPT !.step = next]
  /\ UNCHANGED <<pageVars, cardsStore, imageUrl, foundCard, bootVars, scriptVars>>

\* The dataset is replaced (when the check did so) and the tabs are notified
\* (when it called notifyTabs).
Replacement(replaced, notified) ==
  /\ replaced => dbVersion < MaxVersion
  /\ dbVersion' = IF replaced THEN dbVersion + 1 ELSE dbVersion
  /\ notifications' = IF notified THEN notifications + 1 ELSE notifications
  /\ UNCHANGED <<page, itemAttached, inventoryAttached, tabHidden, redrawn>>

\* The check of init() returns (it catches its own errors); then
\* schedulePeriodicUpdates and setupMessageHandlers run.
StartupCheckSettles ==
  /\ worker.step \in {"githubCheck", "forcedCheck"}
  /\ \E outcome \in IF worker.step = "githubCheck" THEN CheckOutcomes
                     ELSE ForcedOutcomes :
       /\ Replacement(checkReplaces(outcome), checkNotifies(outcome))
       /\ worker' = [worker EXCEPT !.step = "running", !.listening = TRUE,
                                   !.lastCheck = outcome]
  /\ UNCHANGED <<cardsStore, imageUrl, foundCard, bootVars, scriptVars>>

\* The setInterval of schedulePeriodicUpdates.
PeriodicCheckFires ==
  /\ worker.step = "running"
  /\ \E outcome \in CheckOutcomes :
       /\ Replacement(checkReplaces(outcome), checkNotifies(outcome))
       /\ worker' = [worker EXCEPT !.lastCheck = outcome]
  /\ UNCHANGED <<cardsStore, imageUrl, foundCard, bootVars, scriptVars>>

\* A content script or the popup sends a message to the started service
\* worker, and the message is settled.
MessageArrives ==
  /\ worker.step \notin {"off", "start"}
  /\ \E type \in MessageTypes, dbWorks \in BOOLEAN, updated \in BOOLEAN :
       LET handled == IF worker.listening
                      THEN handleMessage(type, dbWorks, updated)
                      ELSE noReceiver(type, dbWorks)
       IN /\ worker' = [worker EXCEPT !.response = handled.response]
          /\ Replacement(handled.replaced, handled.notified)
  /\ UNCHANGED <<cardsStore, imageUrl, foundCard, bootVars, scriptVars>>

\* One call of DatabaseService.findCardByImageUrl.
FindCardByImageUrl ==
  /\ foundCard = Unasked
  /\ foundCard' = findCardByImageUrl(cardsStore, imageUrl)
  /\ UNCHANGED <<cardsStore, imageUrl, worker, pageVars, bootVars, scriptVars>>

Next ==
  \/ InitSucceeds
  \/ InitAttemptFails
  \/ Destroy
  \/ IntersectionCallback
  \/ ImageLookupReturns
  \/ StatsLookupReturns
  \/ ScanTimerFires
  \/ DelayedRescanFires
  \/ DebounceWindowElapses
  \/ ExpiryFires
  \/ UserActivity
  \/ InactivityTimerFires
  \/ VisibilityChange
  \/ TriggerClick
  \/ NavClickFires
  \/ NavRetryFires
  \/ NavDoneFires
  \/ CleanupTimerFires
  \/ DatasetReplaced
  \/ DatabaseUpdatedMessage
  \/ MutationObserverCallback
  \/ HostDetachesItem
  \/ HostAttachesItem
  \/ HostDetachesInventory
  \/ HostAttachesInventory
  \/ HostChangesAttribute
  \/ QuietPeriodElapses
  \/ HostRedrawsCard
  \/ FindCardByImageUrl
  \/ WorkerStarts
  \/ DbInitSettles
  \/ LocalCheckSettles
  \/ StartupCheckSettles
  \/ PeriodicCheckFires
  \/ MessageArrives
  \/ InitCalled
  \/ PingRejects
  \/ PingResolves
  \/ WakeTimerFires
  \/ CardsCountResolves
  \/ BackoffTimerFires
  \/ OuterRetryFires
  \/ BackgroundTurns

Spec == Init /\ [][Next]_vars


\* ------------------------------------------------------------ sub-systems
\* Spec with some of the environment's events left out.  The sub-systems that
\* start from Init have behaviours of Spec only; those that follow init(), the
\* background service or the database service start from their own states.

\* The overlay pipeline under dataset updates, on a page whose cards come and
\* go, while the user stays active and no timer runs late.
NextOverlay ==
  \/ InitSucceeds
  \/ IntersectionCallback
  \/ ImageLookupReturns
  \/ StatsLookupReturns
  \/ ScanTimerFires
  \/ DelayedRescanFires
  \/ CleanupTimerFires
  \/ DatasetReplaced
  \/ DatabaseUpdatedMessage
  \/ MutationObserverCallback
  \/ HostDetachesItem
  \/ HostAttachesItem

SpecOverlay == Init /\ [][NextOverlay]_vars

\* The activity gate, while no timer runs late.
NextActivity ==
  \/ InitSucceeds
  \/ IntersectionCallback
  \/ ImageLookupReturns
  \/ StatsLookupReturns
  \/ ScanTimerFires
  \/ DelayedRescanFires
  \/ UserActivity
  \/ InactivityTimerFires
  \/ VisibilityChange
  \/ DatasetReplaced
  \/ DatabaseUpdatedMessage
  \/ MutationObserverCallback

SpecActivity == Init /\ [][NextActivity]_vars

\* The navigation-trigger coordinator.
NextNavigation ==
  \/ InitSucceeds
  \/ ScanTimerFires
  \/ DebounceWindowElapses
  \/ TriggerClick
  \/ NavClickFires
  \/ NavRetryFires
  \/ NavDoneFires

SpecNavigation == Init /\ [][NextNavigation]_vars

\* The mutation watcher.
NextMutation ==
  \/ InitSucceeds
  \/ IntersectionCallback
  \/ ImageLookupReturns
  \/ StatsLookupReturns
  \/ ScanTimerFires
  \/ DelayedRescanFires
  \/ DebounceWindowElapses
  \/ CleanupTimerFires
  \/ MutationObserverCallback
  \/ HostDetachesItem
  \/ HostAttachesItem
  \/ HostDetachesInventory
  \/ HostAttachesInventory
  \/ HostChangesAttribute

SpecMutation == Init /\ [][NextMutation]_vars

\* Resolution of the visible cards of a page that the host leaves as it is.
NextResolve ==
  \/ InitSucceeds
  \/ IntersectionCallback
  \/ ImageLookupReturns
  \/ StatsLookupReturns
  \/ ScanTimerFires
  \/ DelayedRescanFires
  \/ DebounceWindowElapses
  \/ CleanupTimerFires
  \/ DatasetReplaced
  \/ DatabaseUpdatedMessage
  \/ MutationObserverCallback

SpecResolve == Init /\ [][NextResolve]_vars

\* Resolution with an initialisation that fails first.
NextFailure ==
  \/ InitSucceeds
  \/ InitAttemptFails
  \/ IntersectionCallback
  \/ ImageLookupReturns
  \/ StatsLookupReturns
  \/ ScanTimerFires
  \/ DelayedRescanFires
  \/ DebounceWindowElapses
  \/ DatasetReplaced
  \/ DatabaseUpdatedMessage
  \/ MutationObserverCallback

SpecFailure == Init /\ [][NextFailure]_vars

\* Teardown at any moment of the overlay pipeline.
NextDestroy ==
  \/ InitSucceeds
  \/ Destroy
  \/ IntersectionCallback
  \/ ImageLookupReturns
  \/ StatsLookupReturns
  \/ ScanTimerFires
  \/ DebounceWindowElapses
  \/ UserActivity
  \/ InactivityTimerFires
  \/ CleanupTimerFires
  \/ MutationObserverCallback

SpecDestroy == Init /\ [][NextDestroy]_vars

\* The debounced re-scan under attribute changes by the host page and the
\* inactivity timer.
NextDebounce ==
  \/ InitSucceeds
  \/ ScanTimerFires
  \/ DelayedRescanFires
  \/ DebounceWindowElapses
  \/ UserActivity
  \/ InactivityTimerFires
  \/ MutationObserverCallback
  \/ HostChangesAttribute

\* The activity gate with the time since the last interaction event followed.
NextGate ==
  \/ InitSucceeds
  \/ IntersectionCallback
  \/ ImageLookupReturns
  \/ StatsLookupReturns
  \/ ScanTimerFires
  \/ DelayedRescanFires
  \/ UserActivity
  \/ InactivityTimerFires
  \/ VisibilityChange
  \/ QuietPeriodElapses

SpecGate == InitGate /\ [][NextGate]_vars

\* In-place updates of the cards of a trade page.
NextTradeUpdate ==
  \/ InitSucceeds
  \/ IntersectionCallback
  \/ ImageLookupReturns
  \/ StatsLookupReturns
  \/ ScanTimerFires
  \/ DelayedRescanFires
  \/ DebounceWindowElapses
  \/ MutationObserverCallback
  \/ HostChangesAttribute

SpecTradeUpdate == InitTrade /\ [][NextTradeUpdate]_vars

\* The remelt page that shows a card three times: resolution, the guard of
\* processingIds and navigation rebuilds.
NextDuplicates ==
  \/ InitSucceeds
  \/ IntersectionCallback
  \/ ImageLookupReturns
  \/ StatsLookupReturns
  \/ ScanTimerFires
  \/ ExpiryFires
  \/ TriggerClick
  \/ NavClickFires

SpecDuplicates == InitDuplicates /\ [][NextDuplicates]_vars

\* A timer of kind k is due to run, and one has run.
TimerDue(k) == Idle /\ \E i \in Pending(Cur, k) : CanRun(Cur, i)

TimerRan(k) == Cardinality(Pending(Cur, k)') < Cardinality(Pending(Cur, k))

\* The timers of the page run once due (a timer waits while a MutationObserver
\* callback is owed), and the MutationObserver callback runs once owed.
SpecDebounceFair ==
  /\ InitFollowed /\ [][NextDebounce]_vars
  /\ \A k \in {"scan", "resume", "mut"} :
       <>[]~TimerDue(k) \/ []<><<TimerRan(k)>>_vars
  /\ []<>Idle

\* The timer of a scan, the 100 ms timer of a rebuild and the queued retry are
\* timers of the page: once set they fire.
SpecNavigationFair ==
  /\ Init /\ [][NextNavigation]_vars
  /\ WF_vars(ScanTimerFires) /\ WF_vars(NavDoneFires) /\ WF_vars(NavRetryFires)

\* The database service alone: one call of findCardByImageUrl on a stored
\* dataset of site-relative image paths.
Stores ==
  {{[cardId |-> i, cardImage |-> image[i]] : i \in ids} :
     ids \in SUBSET (1..MaxRecords),
     image \in [1..MaxRecords -> Strings(PathChars, MaxUrlLen)]}

Urls ==
  LET rest == Strings(UrlChars, MaxUrlLen)
  IN rest \cup {<<Origin>> \o u : u \in rest}

InitLookup ==
  /\ InitPage("off", "off", PathCatalog, PageCards(PathCatalog))
  /\ BootAtRest
  /\ worker = WorkerOff
  /\ cardsStore \in Stores
  /\ imageUrl \in Urls
  /\ foundCard = Unasked

NextLookup == FindCardByImageUrl

SpecLookup == InitLookup /\ [][NextLookup]_vars

\* The overlay pipeline on a page whose cards are redrawn in place.
NextRedraw ==
  \/ InitSucceeds
  \/ IntersectionCallback
  \/ ImageLookupReturns
  \/ StatsLookupReturns
  \/ ScanTimerFires
  \/ DelayedRescanFires
  \/ DebounceWindowElapses
  \/ MutationObserverCallback
  \/ HostRedrawsCard

InitRedraw == Init \/ InitTrade

SpecRedraw == InitRedraw /\ [][NextRedraw]_vars

\* The background service worker, from its start, with the messages it is
\* sent; the content script of the tab is not yet initialised.
InitWorker ==
  /\ InitPage("off", "off", PathCatalog, PageCards(PathCatalog))
  /\ BootAtRest
  /\ LookupAtRest
  /\ worker = [WorkerOff EXCEPT !.step = "start"]

NextWorker ==
  \/ WorkerStarts
  \/ DbInitSettles
  \/ LocalCheckSettles
  \/ StartupCheckSettles
  \/ PeriodicCheckFires
  \/ MessageArrives
  \/ DatabaseUpdatedMessage

SpecWorker == InitWorker /\ [][NextWorker]_vars

\* init() step by step, with a background that comes and goes.
NextBoot ==
  \/ InitCalled
  \/ PingRejects
  \/ PingResolves
  \/ WakeTimerFires
  \/ CardsCountResolves
  \/ BackoffTimerFires
  \/ OuterRetryFires
  \/ BackgroundTurns
  \/ ScanTimerFires

SpecBoot == InitBoot /\ [][NextBoot]_vars

\* A step of init() is due: a timer is pending or a message is in flight whose
\* answer the bound on the failing rounds allows.
BootDue ==
  \/ boot.step \in {"start", "wake", "backoff", "outer", "count"}
  \/ /\ boot.step = "ping"
     /\ backgroundReady \/ attempt < maxRetryAttempts \/ boot.round < MaxRounds

BootRan == boot' # boot

\* The same, where every timer runs and every message is settled.
SpecBootFair ==
  /\ InitBoot /\ [][NextBoot]_vars
  /\ <>[]~BootDue \/ []<><<BootRan>>_vars

\* The 100 ms timer of a rebuild is pending, and one has run.
RebuildTimerDue == Idle /\ navDone # <<>>

RebuildTimerRan == Len(navDone') < Len(navDone)

\* The navigation-trigger coordinator whose timers run once due.
SpecRebuildFair ==
  /\ Init /\ [][NextNavigation]_vars
  /\ <>[]~TimerDue("scan") \/ []<><<TimerRan("scan")>>_vars
  /\ <>[]~RebuildTimerDue \/ []<><<RebuildTimerRan>>_vars

\* ------------------------------------------------------------------- claims

\* The findCardByImage requests in flight for one normalized image URL.
RECURSIVE ImageRequestsFrom(_, _, _)
ImageRequestsFrom(s, img, el) ==
  IF el > Len(ElementSelector) THEN 0
  ELSE (IF ImageOf[el] = img THEN s.idLookups[el] ELSE 0)
         + ImageRequestsFrom(s, img, el + 1)

ImageRequests(s, img) == ImageRequestsFrom(s, img, 1)

\* Nothing is owed: no timer, no lookup, no notification, no observer callback.
Quiescent ==
  /\ Idle /\ notifications = 0 /\ ioDue = {}
  /\ timers = <<>>
  /\ \A el \in Cards : idLookups[el] = 0 /\ statLookups[el] = 0
  /\ navDone = <<>> /\ ~navigationTimeout

\* C1: a card element never has more than one overlay, whether the overlay is
\* inside the element or inside its insertion target.
C1_OneOverlayPerCard ==
  \A el \in Cards : Cardinality(OverlaysOf(Cur, el)) <= 1

\* C2: on a page that is not unlimited the overlay nodes in the document never
\* exceed MAX_TOTAL_OVERLAYS.
C2_OverlayCap ==
  ~IsUnlimitedPage => Len(DocumentOverlays(Cur)) <= MAX_TOTAL_OVERLAYS

\* C3: currentOverlaysCount equals the number of overlays attached to the
\* document.
C3_CounterMatchesDocument ==
  currentOverlaysCount = Len(DocumentOverlays(Cur))

\* C4: a MutationObserver batch whose nodes are all overlays or nodes inside
\* overlays schedules no processing and clears no processed flag.
C4_OwnBatchIgnored ==
  [][(mutations # {} /\ \A r \in mutations : r.node \in {"overlay", "inOverlay"})
       => /\ timers' = timers
          /\ processed' = processed
          /\ observing' = observing
          /\ pendingCards' = pendingCards]_vars

C4_OwnBatchHandled ==
  hist.ownBatches /\ Idle /\ processed # {} /\ DocumentOverlays(Cur) # <<>>

\* C5: when the stats lookup of an element resolves after the element left
\* the document, no overlay is attached and the counter is not incremented.
C5_DetachedBeforeResolve ==
  [][\A el \in Cards :
       (statLookups'[el] < statLookups[el] /\ ~InDocument(el))
         => (overlays' = overlays /\ currentOverlaysCount' = currentOverlaysCount)]_vars

\* C6: after a databaseUpdated message received while active, once the
\* re-scan has run and nothing is owed any more, every card that carried an
\* overlay when the message arrived has exactly one overlay, and it shows the
\* stats of the updated dataset.
C6_OverlaysRefreshed ==
  (Quiescent /\ isUserActive /\ hist.scanned /\ hist.updatesHandled = dbVersion)
    => \A el \in hist.refreshDue :
         InDocument(el)
           => /\ Cardinality(OverlaysOf(Cur, el)) = 1
              /\ \A i \in OverlaysOf(Cur, el) : overlays[i].ver = dbVersion

\* C7: no overlay created after a databaseUpdated message is built from stats
\* that were cached before the message.
C7_NoStaleCacheAfterUpdate ==
  \A i \in 1..Len(overlays) : overlays[i].cachedAt >= overlays[i].madeAt

\* C8: a card reported visible while the user is inactive stays pending for
\* as long as the user stays inactive, so that resumeProcessing hands it over.
C8_PendingKeptWhileInactive ==
  [][(~isUserActive /\ ~isUserActive') => pendingCards \subseteq pendingCards']_vars

\* C9: at most one navigation rebuild is in progress: no rebuild starts while
\* an earlier one has reached neither resetFlag nor its watchdog.
C9_OneRebuildInProgress ==
  /\ Len(navDone) <= 1
  /\ isNavigationProcessing <=> navDone # <<>>

C9_TriggerDuringRebuild ==
  isNavigationProcessing /\ navigationTimeout /\ Len(navDone) = 1

\* C10: a navigation trigger that fires while a rebuild is in progress is
\* queued and leads to a rebuild later.
C10_QueuedTriggerServed ==
  hist.navUnserved ~> ~hist.navUnserved

C10_ServedAfterQueue ==
  hist.served /\ isNavigationProcessing

\* C11: processExistingCards is idempotent, and it skips an element that is
\* already observing or processed: a scan leaves the flags of such an element
\* and its registration with the IntersectionObserver as they are.
C11_ScanIdempotentAndSkips ==
  isInitialized =>
    LET once == processExistingCards(Cur)
        twice == processExistingCards(once)
    IN /\ twice = once
       /\ \A el \in processed \cup observing :
            /\ el \in once.processed <=> el \in processed
            /\ el \in once.observing <=> el \in observing
            /\ el \in once.ioTargets <=> el \in ioTargets
            /\ el \in once.ioDue <=> el \in ioDue

\* C12: when findCardByImage reports no match for an element that is resolved
\* by image, extractCardIdAsync returns null: the element is not handed to
\* addStatsOverlay, whatever number its image URL holds.
C12_NoIdFromUrl ==
  [][\A el \in Cards :
       (idLookups'[el] < idLookups[el] /\ el \in hist.noId')
         => /\ statLookups' = statLookups
            /\ processed' = processed
            /\ overlays' = overlays]_vars

C12_NoMatchReported ==
  \E el \in hist.noId :
    /\ ResolvesByImage(el) /\ UrlNumberOf[el] # NoId
    /\ idLookups[el] = 0 /\ statLookups[el] = 0 /\ OverlaysOf(Cur, el) = {}

\* C18: when no card id can be resolved for a visible element, the element is
\* marked processed.
C18_NoIdMarksProcessed ==
  [][\A el \in Cards :
       (idLookups'[el] < idLookups[el] /\ el \in hist.noId') => el \in processed']_vars

\* C13: two executions of processExistingCards started through
\* processExistingCardsDebounced are at least PROCESS_DEBOUNCE_DELAY apart.
\* The timer of an execution is set PROCESS_DEBOUNCE_DELAY ahead, so a timer
\* that is pending when an execution takes place is due less than
\* PROCESS_DEBOUNCE_DELAY after it: when an execution takes place, no further
\* execution is pending.
C13_ExecutionsSpaced ==
  [][(Cardinality(Pending(Cur, "scan")') < Cardinality(Pending(Cur, "scan"))
      /\ isUserActive)
       => Pending(Cur, "scan")' = {}]_vars

C15_CounterIgnoredOnUnlimitedPage ==
  (IncludesTrade(page) \/ IncludesRemelt(page)) =>
    \A c \in 0..(MaxOverlayNodes + 1) :
      LET s == [Cur EXCEPT !.currentOverlaysCount = c]
          Rest(t) == [t EXCEPT !.currentOverlaysCount = 0]
      IN /\ \A el \in Cards :
              /\ Rest(addStatsOverlay(s, el)) = Rest(addStatsOverlay(Cur, el))
              /\ addStatsOverlay(s, el).currentOverlaysCount - c
                   = addStatsOverlay(Cur, el).currentOverlaysCount - currentOverlaysCount
         /\ Rest(performCleanup(s)) = Rest(performCleanup(Cur))
         /\ \A k \in 1..Len(overlays) :
              InDocument(overlays[k].owner)
                => \E j \in 1..Len(performCleanup(s).overlays) :
                     performCleanup(s).overlays[j] = overlays[k]

\* More than MAX_TOTAL_OVERLAYS overlays are attached on such a page, and the
\* counter says so.
C15_OverCapOnUnlimitedPage ==
  /\ IncludesTrade(page) \/ IncludesRemelt(page)
  /\ Len(DocumentOverlays(Cur)) > MAX_TOTAL_OVERLAYS
  /\ currentOverlaysCount > MAX_TOTAL_OVERLAYS

\* C16: after destroy() nothing created by the instance remains active: no
\* timer is pending, no observer callback is owed, the IntersectionObserver is
\* disconnected, the handlers are detached, both caches are empty, no overlay
\* is attached, and no lookup of the instance is awaited.
C16_NothingActiveAfterDestroy ==
  hist.destroyed =>
    /\ ~cleanupTimer /\ ~userInactivityTimer /\ ~navigationTimeout
    /\ timers = <<>> /\ navDone = <<>> /\ \A i \in Images : expiry[i] = 0
    /\ mutations = {}
    /\ ~intersectionObserver /\ ioTargets = {} /\ ~clickHandler
    /\ cardIdCache = {} /\ \A id \in CardIds : statsCache[id] = NoStats
    /\ DocumentOverlays(Cur) = <<>>
    /\ \A el \in Cards : idLookups[el] = 0 /\ statLookups[el] = 0

\* C17: destroy() is idempotent and safe in every state: a second call leaves
\* the state of the first, and no call throws.
C17_DestroyIdempotent ==
  LET once == destroy(Cur)
      twice == destroy(once)
  IN twice = once /\ ~once.hist.threw /\ ~twice.hist.threw

\* destroy() has run on an initialised instance that an earlier destroy() had
\* torn down.
C17_DestroyedTwice == hist.twice /\ isInitialized

C20_NoRetryAfterStatsFailure ==
  [][\A el \in Cards :
       /\ StatsLookupFails(el)
            => /\ overlays' = overlays
               /\ currentOverlaysCount' = currentOverlaysCount
               /\ processed' = processed
               /\ statLookups' = [statLookups EXCEPT ![el] = @ - 1]
       /\ (statLookups'[el] > statLookups[el]) => el \notin processed]_vars

\* A getCardStats lookup has failed: the element is in the document and
\* processed, nothing is in flight for it, no stats are cached for its card and
\* it has no overlay.
C20_StatsLookupFailed ==
  \E el \in Cards :
    /\ InDocument(el) /\ el \in processed
    /\ statLookups[el] = 0 /\ idLookups[el] = 0
    /\ statsCache[CardIdOf[el]] = NoStats
    /\ OverlaysOf(Cur, el) = {}

\* C21: every navigation rebuild (a handleNavigationTrigger that finds no
\* rebuild in progress) clears the flags, removes the overlays and schedules
\* one re-scan through processExistingCardsDebounced, on every page type: when
\* the rebuild's task ends, the timer that calls processExistingCardsDebounced
\* or a timer of processExistingCardsDebounced itself has been added.
C21_RebuildSchedulesRescan ==
  [][((NavClickFires \/ NavRetryFires) /\ ~isNavigationProcessing)
       => \/ Len(navDone') = Len(navDone) + 1
          \/ Cardinality(Pending(Cur, "scan")') = Cardinality(Pending(Cur, "scan")) + 1]_vars

\* C22: for one card element at most one overlay-creation attempt is between
\* the write of its processed flag and the insertion of its overlay: no
\* element has two getCardStats lookups outstanding, also when
\* clearAllProcessedFlags or a re-scan ran while a lookup was outstanding.
C22_OneAttemptPerElement ==
  \A el \in Cards : statLookups[el] <= 1

\* C23: for one normalized image URL at most one findCardByImage request is
\* outstanding at a time: calls made for the same URL while a request is in
\* flight share that request.
C23_OneRequestPerImage ==
  \A img \in Images : ImageRequests(Cur, img) <= 1

\* C24: in every state in which the tab is hidden, or USER_INACTIVITY_TIMEOUT
\* has passed since the last interaction event (since start-up when there was
\* none), isUserActive is false.
C24_InactiveWhenQuietOrHidden ==
  (tabHidden \/ hist.quiet = "yes") => ~isUserActive

\* C25: on an actual trade page, when the data-id attribute of a processed
\* card element changes in place, the MutationObserver callback clears the
\* element's processed flag and schedules the re-scan, whether or not the
\* element contains an overlay.
C25_AttributeChangeResets ==
  [][\A el \in Cards :
       (/\ IsActualTradePage(page)
        /\ [type |-> "attributes", node |-> "card", el |-> el, attr |-> "data-id"]
             \in mutations
        /\ el \in processed)
         => /\ el \notin processed'
            /\ Cardinality(Pending(Cur, "mut")') = Cardinality(Pending(Cur, "mut")) + 1]_vars

\* C26: when a container of cards is removed from the document, the processed
\* and observing flags of the cards inside it are cleared by the
\* MutationObserver callback, and when the container is inserted again the
\* callback schedules a re-scan.
C26_ContainerCardsFresh ==
  [][/\ [type |-> "removed", node |-> "inventory", el |-> 0, attr |-> ""] \in mutations
          => \A el \in InInventory :
               itemAttached[el] => el \notin processed' /\ el \notin observing'
     /\ [type |-> "added", node |-> "inventory", el |-> 0, attr |-> ""] \in mutations
          => Cardinality(Pending(Cur, "mut")') = Cardinality(Pending(Cur, "mut")) + 1]_vars

\* C27: on a /cards_remelt/ page, while processingIds holds the key of an
\* image, addStatsOverlay does not proceed for any card that shows that image,
\* whatever selector the card matches: no such card gets the processed flag
\* and no getCardStats lookup is begun for it.
C27_GuardCoversEveryCard ==
  [][\A el \in Cards :
       (IncludesRemelt(page) /\ ImageOf[el] \in processingIds)
         => /\ statLookups'[el] <= statLookups[el]
            /\ el \notin processed => el \notin processed']_vars

\* C28: an entry of processingIds stays until its own 5 s timer runs or a
\* navigation rebuild clears the set, and it is gone once its timer has run.
\* The timers of one key run in the order they were set, and the entry's own
\* timer is the last one set: an entry is removed only by a rebuild or by the
\* last pending timer of its key, and an entry always has a timer pending.
C28_EntryLivesItsOwnWindow ==
  [][\A i \in Images :
       /\ i \in processingIds => expiry[i] > 0
       /\ (i \in processingIds /\ i \notin processingIds')
            => \/ NavClickFires \/ NavRetryFires
               \/ expiry[i] = 1 /\ expiry'[i] = 0]_vars

\* The overlays of the sequence whose card element is in the document.
AttachedOverlays(seq) == SelectSeq(seq, LAMBDA o : InDocument(o.owner))

\* C29: a run of performCleanup on a page that is not unlimited leaves
\* currentOverlaysCount at most MAX_TOTAL_OVERLAYS and no overlay of a card
\* that left the document; the counter falls by one for each overlay removed,
\* and the overlays left in the document are the ones inserted last.
C29_CleanupRestoresCap ==
  (Idle /\ cleanupTimer /\ ~IsUnlimitedPage) =>
    LET after == performCleanup(Cur)
    IN /\ after.currentOverlaysCount <= MAX_TOTAL_OVERLAYS
       /\ \A k \in 1..Len(after.overlays) : InDocument(after.overlays[k].owner)
       /\ currentOverlaysCount - after.currentOverlaysCount
            = Len(overlays) - Len(after.overlays)
       /\ \E n \in 0..Len(AttachedOverlays(overlays)) :
            AttachedOverlays(after.overlays) =
              SubSeq(AttachedOverlays(overlays), n + 1, Len(AttachedOverlays(overlays)))

\* C30: an element is registered with the IntersectionObserver at most once
\* between two flag-clearing events: a run of processExistingCards hands an
\* element to observe at most once, and not at all when the element carries
\* data-animestars-observing already.
C30_RegisteredOnce ==
  \A el \in Cards :
    Registrations(Cur, el) <= IF el \in observing THEN 0 ELSE 1

\* C31: isNavigationProcessing never stays true: every rebuild that sets it
\* is followed by its reset, and while it is set the only pending pair of
\* 100 ms timer and watchdog is the pair of the rebuild that set it, so that
\* no watchdog of an earlier rebuild is left to clear it.
C31_FlagAlwaysReset ==
  /\ [](isNavigationProcessing => Len(navDone) = 1)
  /\ isNavigationProcessing ~> ~isNavigationProcessing

\* A rebuild that served a queued trigger has completed.
C31_ResetAfterRebuild == hist.served /\ ~isNavigationProcessing /\ navDone = <<>>

\* The stored image and the URL name the same image.
Denotes(cardImage, url) == normalizeUrl(cardImage) = normalizeUrl(url)

\* C32: findCardByImageUrl resolves with a card id only if that card's stored
\* cardImage denotes the queried image, and with null when no stored card has
\* that image; it never resolves with the id of a different card.
C32_OnlyTheQueriedImage ==
  foundCard # Unasked =>
    LET having == {c \in cardsStore : Denotes(c.cardImage, imageUrl)}
    IN /\ foundCard # NoId => foundCard \in {c.cardId : c \in having}
       /\ having = {} => foundCard = NoId

\* C33: an initialisation attempt is declared failed for its ping only after
\* the ping has been tried three times, whether the pings were rejected or
\* answered without success; the second ping waits 100 ms, the third 500 ms.
C33_ThreePingsBeforeFailure ==
  /\ boot.failedBy = "ping" => boot.failedPings = 3
  /\ boot.step = "wake" => boot.delay = IF boot.pings = 1 THEN 100 ELSE 500

\* C34: initialisation never gives up: while the script is not initialised a
\* step of init() is always pending (an attempt, or the timer of the next
\* attempt or round); the set-up has run exactly once when isInitialized is
\* true and not before; and if the background from some moment on answers
\* ping with success, isInitialized becomes true.
C34_InitNeverGivesUp ==
  /\ [](~isInitialized =>
         boot.step \in {"start", "ping", "count", "wake", "backoff", "outer"})
  /\ [](boot.setUps = IF isInitialized THEN 1 ELSE 0)
  /\ (<>[]backgroundReady) => <>isInitialized

\* Initialised in a later round, after a whole round of failed attempts.
C34_InitializedInLaterRound == isInitialized /\ boot.round > 1 /\ boot.setUps = 1

\* C40: the delay between two attempts of a round is bounded and the same in
\* every round: the first retry of a round waits 1000 ms, the second 2000 ms.
C40_SameBackoffEveryRound ==
  boot.step = "backoff" => boot.delay = InitialRetryDelay * attempt

\* C36: on a page that is not unlimited addStatsOverlay refuses a card for the
\* cap only when at least MAX_TOTAL_OVERLAYS overlay nodes are attached to the
\* document: a card in the document that is due at the IntersectionObserver
\* and carries neither flag nor overlay is refused only then.
C36_RefusedOnlyWhenFull ==
  \A el \in Cards :
    ( /\ isUserActive /\ el \in ioDue /\ InDocument(el)
      /\ el \notin processed /\ ~HasOverlayInside(Cur, el)
      /\ addStatsOverlay(Cur, el) = Cur /\ CapRefuses(Cur) )
    => Len(AttachedOverlays(overlays)) >= MAX_TOTAL_OVERLAYS

\* C35: once the system is quiescent with the user active, every overlay in
\* the document shows the card id that its element carries now, also after
\* the host page changed the element's id in place.
C35_OverlayShowsCurrentId ==
  (Quiescent /\ isInitialized /\ isUserActive) =>
    \A i \in 1..Len(overlays) :
      InDocument(overlays[i].owner) =>
        overlays[i].cardId = CardIdNow(overlays[i].owner)

\* C37: every message sent after the service worker has started is answered:
\* the listener is registered before init() awaits anything, so no message
\* is left without a receiver, also during the first download and after a
\* failed database initialisation.
C37_EveryMessageAnswered ==
  worker.response.type # "none" => worker.response.answered

\* C38: every message type the content script sends is handled with a
\* response that carries success: whenever the listener answered one of them
\* while the database calls resolve, the response has success true.
C38_ContentMessagesHandled ==
  ( /\ worker.response.type \in ContentMessages
    /\ worker.response.answered /\ worker.response.dbWorks )
  => worker.response.success

\* C39: every successful replacement of the dataset is followed by a
\* databaseUpdated notification to the tabs: the step that replaces the
\* dataset calls notifyTabs.
C39_ReplacementNotifies ==
  [][dbVersion' > dbVersion => notifications' = notifications + 1]_vars

====
